---- MODULE Spec2Model ----
(***************************************************************************)
(* Model of collector/gpu_nvida.go: the NVIDIA GPU collector of            *)
(* node_exporter.  The framework calls gpuCollector.Update once per        *)
(* scrape; Update asks NVML for the device count, then walks the device    *)
(* indices, reads name / utilization / temperature / memory of each and    *)
(* sends six const metrics per readable device into the channel ch.        *)
(*                                                                         *)
(* The model follows Update statement group by statement group (pc is the  *)
(* position inside the call).  NVML is the environment: each library call  *)
(* picks its return code and its value when it is made, and the answer is  *)
(* remembered in nvmlCalls so that properties can speak about "what the    *)
(* library said during this call".  sink is what the receiver of ch got    *)
(* during the current call, log what the slog.Logger was handed.           *)
(*                                                                         *)
(* Assumptions on collaborators that are not part of this repository:      *)
(* every send on ch is received, every NVML call returns, and              *)
(* prometheus.MustNewConstMetric accepts the two label values (device      *)
(* names are valid UTF-8).                                                 *)
(***************************************************************************)
EXTENDS Integers, Sequences, FiniteSets, TLC

VARIABLES
    g,              \* the collector: its six descriptors (gpuCollector)
    pc,             \* position of the Update call
    count,          \* Update local: device count
    ret,            \* Update local: last nvml.Return
    i,              \* Update local: loop index
    device,         \* loop local: device handle
    name,           \* loop local: device name
    util,           \* loop local: nvml.Utilization
    temp,           \* loop local: temperature
    mem,            \* loop local: nvml.Memory
    gpuIndex,       \* loop local: strconv.Itoa(i)
    gpuUtilization, \* loop local: float64(util.Gpu)
    err,            \* value returned by the last finished Update
    sink,           \* metrics received from ch during the current call
    log,            \* entries handed to g.logger during the current call
    nvmlCalls,      \* answers NVML gave during the current call
    lastFailed      \* TRUE iff the call before the current one returned an error

vars == <<g, pc, count, ret, i, device, name, util, temp, mem, gpuIndex,
          gpuUtilization, err, sink, log, nvmlCalls, lastFailed>>

locals == <<device, name, util, temp, mem, gpuIndex, gpuUtilization>>

----------------------------------------------------------------------------
(* Bounds of the model *)

MaxDevices == 2

----------------------------------------------------------------------------
(* NVML: return codes and the values a call can deliver *)

SUCCESS == 0
ERROR_UNKNOWN == 999
Returns == {SUCCESS, ERROR_UNKNOWN}

DeviceCounts == 0..MaxDevices

DeviceNames == {"A", "B"}
GarbageNames == DeviceNames \cup {""}
UtilizationValues == {[Gpu |-> 50, Memory |-> 7]}
TemperatureValues == {60}
MemoryValues == {[Total |-> 100, Used |-> 40, Free |-> 60],
                 [Total |-> 200, Used |-> 0, Free |-> 200]}

NoDevice == -1
NoUtil == [Gpu |-> 0, Memory |-> 0]
NoMem == [Total |-> 0, Used |-> 0, Free |-> 0]

\* one remembered answer of the library
Answer(fn, idx, r, v) == [fn |-> fn, index |-> idx, ret |-> r, val |-> v]

----------------------------------------------------------------------------
(* strconv.Itoa: decimal digits, most significant first *)

Digit(d) ==
    CASE d = 0 -> "0" [] d = 1 -> "1" [] d = 2 -> "2" [] d = 3 -> "3"
      [] d = 4 -> "4" [] d = 5 -> "5" [] d = 6 -> "6" [] d = 7 -> "7"
      [] d = 8 -> "8" [] d = 9 -> "9"

RECURSIVE FormatUint(_)
FormatUint(n) ==
    IF n < 10 THEN <<Digit(n)>> ELSE Append(FormatUint(n \div 10), Digit(n % 10))

Itoa(n) == IF n < 0 THEN <<"-">> \o FormatUint(-n) ELSE FormatUint(n)

----------------------------------------------------------------------------
(* float64(x) of an unsigned integer: 53 significant bits, round to        *)
(* nearest, ties to even.  A float is kept as sig * 2^exp with sig odd.    *)

MantissaBits == 53

RECURSIVE Pow2(_)
Pow2(k) == IF k = 0 THEN 1 ELSE 2 * Pow2(k - 1)

RECURSIVE BitLen(_)
BitLen(n) == IF n = 0 THEN 0 ELSE 1 + BitLen(n \div 2)

RECURSIVE Normalize(_, _)
Normalize(m, e) ==
    IF m = 0 THEN [sig |-> 0, exp |-> 0]
    ELSE IF m % 2 = 0 THEN Normalize(m \div 2, e + 1)
    ELSE [sig |-> m, exp |-> e]

Float64(n) ==
    LET bl == BitLen(n)
        sh == IF bl > MantissaBits THEN bl - MantissaBits ELSE 0
    IN  IF sh = 0 THEN Normalize(n, 0)
        ELSE LET q == n \div Pow2(sh)
                 r == n % Pow2(sh)
                 half == Pow2(sh - 1)
                 up == r > half \/ (r = half /\ q % 2 = 1)
             IN  Normalize(IF up THEN q + 1 ELSE q, sh)

----------------------------------------------------------------------------
(* errors, log entries, descriptors, metrics *)

NilErr == [isNil |-> TRUE, msg |-> "", args |-> <<>>]
Errorf(msg, r) == [isNil |-> FALSE, msg |-> msg, args |-> <<r>>]
ErrorsNew(msg) == [isNil |-> FALSE, msg |-> msg, args |-> <<>>]

LogError(msg, r) ==
    [level |-> "ERROR", msg |-> msg, attrs |-> <<<<"return", r>>>>]
LogWarn(msg, idx, r) ==
    [level |-> "WARN", msg |-> msg, attrs |-> <<<<"gpu_index", idx>>, <<"return", r>>>>]

gpuCollectorSubsystem == "gpu"
LabelNames == <<"gpu_index", "gpu_name">>
NewDesc(metric) ==
    [subsystem |-> gpuCollectorSubsystem, name |-> metric, variableLabels |-> LabelNames]

NewGPUCollector ==
    [gpuUtilizationDesc |-> NewDesc("utilisation_percentage"),
     gpuTemperatureDesc |-> NewDesc("temperature_celsius"),
     gpuMemoryTotalDesc |-> NewDesc("memory_total_bytes"),
     gpuMemoryUsedDesc  |-> NewDesc("memory_used_bytes"),
     gpuMemoryFreeDesc  |-> NewDesc("memory_free_bytes"),
     gpuInfoDesc        |-> NewDesc("info")]

MustNewConstMetric(desc, value, idx, nm) ==
    [desc |-> desc, valueType |-> "GaugeValue", value |-> value,
     labelValues |-> <<idx, nm>>]

----------------------------------------------------------------------------
Init ==
    /\ g = NewGPUCollector
    /\ pc = "idle"
    /\ count = 0
    /\ ret = SUCCESS
    /\ i = 0
    /\ device = NoDevice
    /\ name = ""
    /\ util = NoUtil
    /\ temp = 0
    /\ mem = NoMem
    /\ gpuIndex = <<>>
    /\ gpuUtilization = Float64(0)
    /\ err = NilErr
    /\ sink = <<>>
    /\ log = <<>>
    /\ nvmlCalls = <<>>
    /\ lastFailed = FALSE

\* the variables declared in the loop body are fresh in every iteration
FreshLocals ==
    /\ device' = NoDevice
    /\ name' = ""
    /\ util' = NoUtil
    /\ temp' = 0
    /\ mem' = NoMem
    /\ gpuIndex' = <<>>
    /\ gpuUtilization' = Float64(0)

\* the framework starts a scrape: Update(ch) with a fresh channel
Call ==
    /\ pc \in {"idle", "done"}
    /\ pc' = "GetCount"
    /\ lastFailed' = (pc = "done" /\ ~err.isNil)
    /\ count' = 0
    /\ ret' = SUCCESS
    /\ i' = 0
    /\ FreshLocals
    /\ err' = NilErr
    /\ sink' = <<>>
    /\ log' = <<>>
    /\ nvmlCalls' = <<>>
    /\ UNCHANGED g

----------------------------------------------------------------------------
(* Update, line 101-192 *)

\* line 104, 114, 121, 128, 135, 142: ret != nvml.SUCCESS
Failed(r) == r # SUCCESS

\* variant: the failure of the count query goes unnoticed
CountFailedIgnored(r) == FALSE

\* variant: the collector remembers that its last call failed
CountFailedSticky(r) == Failed(r) \/ lastFailed

\* line 104: the count query failed
CountFailed(r) == Failed(r)

\* variant: the zero-device test is lost
CountIsZeroNever(c) == c < 0

\* line 108: count == 0
CountIsZero(c) == c = 0

\* variant: the loop has no exit
ForTargetNoExit(idx, cnt) == IF idx < cnt THEN "DeviceGetHandleByIndex" ELSE "for"

\* line 112: i < count enters the body, otherwise line 191 returns nil
ForTarget(idx, cnt) == IF idx < cnt THEN "DeviceGetHandleByIndex" ELSE "done"

\* variant: a failed handle is used like a good one
HandleFailedIgnored(r) == FALSE

\* line 114: the handle could not be obtained
HandleFailed(r) == Failed(r)

\* variant: the placeholder is not assigned
NameOnFailureKept(garbage) == garbage

\* line 123: the placeholder that replaces whatever GetName left in name
NameOnFailure(garbage) == "unknown"

\* variant: a failed temperature read does not skip the device
TemperatureFailedIgnored(r) == FALSE

\* line 135: the temperature could not be read
TemperatureFailed(r) == Failed(r)

\* variant: a device that cannot be read ends the whole update with an error
SkipDeviceAborts ==
    /\ i' = i
    /\ pc' = "done"
    /\ err' = ErrorsNew("could not read GPU")
    /\ FreshLocals

\* line 116, 130, 137, 144: continue (the post statement i++, then the
\* condition; the variables of the body are declared anew)
SkipDevice ==
    /\ i' = i + 1
    /\ pc' = "for"
    /\ err' = err
    /\ FreshLocals

\* line 103-110: the device count and the two fatal exits
GetCount ==
    /\ pc = "GetCount"
    /\ \E r \in Returns, c \in DeviceCounts :
        /\ nvmlCalls' = Append(nvmlCalls, Answer("DeviceGetCount", NoDevice, r, c))
        /\ count' = c
        /\ ret' = r
        /\ IF CountFailed(r)
           THEN /\ log' = Append(log, LogError("failed to get GPU count", r))
                /\ err' = Errorf("could not retrieve GPU count: %v", r)
                /\ pc' = "done"
           ELSE IF CountIsZero(c)
           THEN /\ err' = ErrorsNew("no NVIDIA GPUs found")
                /\ pc' = "done"
                /\ log' = log
           ELSE /\ pc' = "for"
                /\ UNCHANGED <<log, err>>
    /\ UNCHANGED <<g, i, locals, sink, lastFailed>>

\* line 112: the loop condition; line 191: return nil
ForCond ==
    /\ pc = "for"
    /\ pc' = ForTarget(i, count)
    /\ err' = NilErr
    /\ UNCHANGED <<g, count, ret, i, locals, sink, log, nvmlCalls, lastFailed>>

\* line 113-117
GetHandle ==
    /\ pc = "DeviceGetHandleByIndex"
    /\ \E r \in Returns :
        /\ nvmlCalls' = Append(nvmlCalls, Answer("DeviceGetHandleByIndex", i, r, i))
        /\ ret' = r
        /\ IF HandleFailed(r)
           THEN /\ log' = Append(log, LogWarn("failed to get handle for GPU device", i, r))
                /\ SkipDevice
           ELSE /\ device' = i
                /\ pc' = "GetName"
                /\ UNCHANGED <<log, i, err, name, util, temp, mem, gpuIndex,
                               gpuUtilization>>
    /\ UNCHANGED <<g, count, sink, lastFailed>>

\* line 120-124
GetName ==
    /\ pc = "GetName"
    /\ \E r \in Returns, v \in GarbageNames :
        /\ r = SUCCESS => v \in DeviceNames
        /\ nvmlCalls' = Append(nvmlCalls,
                               Answer("GetName", device, r, IF Failed(r) THEN "" ELSE v))
        /\ ret' = r
        /\ IF Failed(r)
           THEN /\ log' = Append(log, LogWarn("failed to get GPU name", i, r))
                /\ name' = NameOnFailure(v)
           ELSE /\ name' = v
                /\ log' = log
    /\ pc' = "GetUtilizationRates"
    /\ UNCHANGED <<g, count, i, device, util, temp, mem, gpuIndex, gpuUtilization,
                   err, sink, lastFailed>>

\* line 127-131
GetUtilizationRates ==
    /\ pc = "GetUtilizationRates"
    /\ \E r \in Returns, v \in UtilizationValues :
        /\ nvmlCalls' = Append(nvmlCalls,
                               Answer("GetUtilizationRates", device, r,
                                      IF Failed(r) THEN NoUtil ELSE v))
        /\ ret' = r
        /\ IF Failed(r)
           THEN /\ log' = Append(log, LogWarn("failed to get GPU utilization", i, r))
                /\ SkipDevice
           ELSE /\ util' = v
                /\ pc' = "GetTemperature"
                /\ UNCHANGED <<log, i, err, device, name, temp, mem, gpuIndex,
                               gpuUtilization>>
    /\ UNCHANGED <<g, count, sink, lastFailed>>

\* line 134-138
GetTemperature ==
    /\ pc = "GetTemperature"
    /\ \E r \in Returns, v \in TemperatureValues :
        /\ nvmlCalls' = Append(nvmlCalls,
                               Answer("GetTemperature", device, r,
                                      IF Failed(r) THEN 0 ELSE v))
        /\ ret' = r
        /\ IF TemperatureFailed(r)
           THEN /\ log' = Append(log, LogWarn("failed to get GPU temperature", i, r))
                /\ SkipDevice
           ELSE /\ temp' = v
                /\ pc' = "GetMemoryInfo"
                /\ UNCHANGED <<log, i, err, device, name, util, mem, gpuIndex,
                               gpuUtilization>>
    /\ UNCHANGED <<g, count, sink, lastFailed>>

\* line 141-149: the memory read and, when it succeeds, the two conversions
GetMemoryInfo ==
    /\ pc = "GetMemoryInfo"
    /\ \E r \in Returns, v \in MemoryValues :
        /\ nvmlCalls' = Append(nvmlCalls,
                               Answer("GetMemoryInfo", device, r,
                                      IF Failed(r) THEN NoMem ELSE v))
        /\ ret' = r
        /\ IF Failed(r)
           THEN /\ log' = Append(log, LogWarn("failed to get GPU memory info", i, r))
                /\ SkipDevice
           ELSE /\ mem' = v
                /\ gpuIndex' = Itoa(i)
                /\ gpuUtilization' = Float64(util.Gpu)
                /\ pc' = "SendUtilization"
                /\ UNCHANGED <<log, i, err, device, name, util, temp>>
    /\ UNCHANGED <<g, count, sink, lastFailed>>

\* the six metrics of line 152-188
UtilizationMetric == MustNewConstMetric(g.gpuUtilizationDesc, gpuUtilization, gpuIndex, name)
TemperatureMetric == MustNewConstMetric(g.gpuTemperatureDesc, Float64(temp), gpuIndex, name)
MemoryTotalMetric == MustNewConstMetric(g.gpuMemoryTotalDesc, Float64(mem.Total), gpuIndex, name)
MemoryUsedMetricFromFree == MustNewConstMetric(g.gpuMemoryUsedDesc, Float64(mem.Free), gpuIndex, name)
MemoryUsedMetric == MustNewConstMetric(g.gpuMemoryUsedDesc, Float64(mem.Used), gpuIndex, name)
MemoryFreeMetric == MustNewConstMetric(g.gpuMemoryFreeDesc, Float64(mem.Free), gpuIndex, name)
InfoMetric == MustNewConstMetric(g.gpuInfoDesc, Float64(1), gpuIndex, name)

\* ch <- m, then on to the next statement
Send(at, m, next) ==
    /\ pc = at
    /\ sink' = Append(sink, m)
    /\ pc' = next
    /\ UNCHANGED <<g, count, ret, i, locals, err, log, nvmlCalls, lastFailed>>

\* line 152-157
SendUtilization == Send("SendUtilization", UtilizationMetric, "SendTemperature")
\* line 158-163
SendTemperature == Send("SendTemperature", TemperatureMetric, "SendMemoryTotal")
\* line 164-169
SendMemoryTotal == Send("SendMemoryTotal", MemoryTotalMetric, "SendMemoryUsed")
\* line 170-175
SendMemoryUsed == Send("SendMemoryUsed", MemoryUsedMetric, "SendMemoryFree")
\* line 176-181
SendMemoryFree == Send("SendMemoryFree", MemoryFreeMetric, "SendInfo")

\* line 183-189: the info metric, then the end of the body (i++)
SendInfo ==
    /\ pc = "SendInfo"
    /\ sink' = Append(sink, InfoMetric)
    /\ i' = i + 1
    /\ pc' = "for"
    /\ err' = err
    /\ FreshLocals
    /\ UNCHANGED <<g, count, ret, log, nvmlCalls, lastFailed>>

\* one step inside a running Update call
UpdateStep ==
    \/ GetCount
    \/ ForCond
    \/ GetHandle
    \/ GetName
    \/ GetUtilizationRates
    \/ GetTemperature
    \/ GetMemoryInfo
    \/ SendUtilization
    \/ SendTemperature
    \/ SendMemoryTotal
    \/ SendMemoryUsed
    \/ SendMemoryFree
    \/ SendInfo

Next == Call \/ UpdateStep

Spec == Init /\ [][Next]_vars

\* a running call keeps running: the goroutine is scheduled, the library
\* calls return and the sends are received
LiveSpec == Spec /\ WF_vars(UpdateStep)

----------------------------------------------------------------------------
(* Vocabulary of the properties: what the library answered during the      *)
(* current call, and how the samples in the sink are read back.            *)

Returned == pc = "done"

Answers(fn, idx) ==
    {k \in DOMAIN nvmlCalls : nvmlCalls[k].fn = fn /\ nvmlCalls[k].index = idx}
Asked(fn, idx) == Answers(fn, idx) # {}
Succeeded(fn, idx) == \E k \in Answers(fn, idx) : nvmlCalls[k].ret = SUCCESS
FailedRead(fn, idx) == \E k \in Answers(fn, idx) : nvmlCalls[k].ret # SUCCESS
Reading(fn, idx) == nvmlCalls[CHOOSE k \in Answers(fn, idx) : TRUE].val

CountAsked == Asked("DeviceGetCount", NoDevice)
CountQueryFailed == FailedRead("DeviceGetCount", NoDevice)
CountQueryOk == Succeeded("DeviceGetCount", NoDevice)
ReportedCount == Reading("DeviceGetCount", NoDevice)

DeviceFns == {"DeviceGetHandleByIndex", "GetName", "GetUtilizationRates",
              "GetTemperature", "GetMemoryInfo"}
DeviceIndices == 0..MaxDevices

\* handle, utilization, temperature and memory of the device were all read
Healthy(idx) ==
    /\ Succeeded("DeviceGetHandleByIndex", idx)
    /\ Succeeded("GetUtilizationRates", idx)
    /\ Succeeded("GetTemperature", idx)
    /\ Succeeded("GetMemoryInfo", idx)
HealthySet == {idx \in DeviceIndices : Healthy(idx)}
AllReadsOk(idx) == \A fn \in DeviceFns : Succeeded(fn, idx)

\* the decimal number a label value spells (-1 when it is no canonical numeral)
DigitValue(c) ==
    CASE c = "0" -> 0 [] c = "1" -> 1 [] c = "2" -> 2 [] c = "3" -> 3
      [] c = "4" -> 4 [] c = "5" -> 5 [] c = "6" -> 6 [] c = "7" -> 7
      [] c = "8" -> 8 [] c = "9" -> 9 [] OTHER -> -1
RECURSIVE DigitsValue(_)
DigitsValue(s) ==
    IF Len(s) = 0 THEN 0
    ELSE 10 * DigitsValue(SubSeq(s, 1, Len(s) - 1)) + DigitValue(s[Len(s)])
Atoi(s) ==
    IF /\ Len(s) >= 1
       /\ \A k \in DOMAIN s : DigitValue(s[k]) >= 0
       /\ (Len(s) > 1 => s[1] # "0")
    THEN DigitsValue(s) ELSE -1

\* the number a float64 stands for
FloatValue(f) == f.sig * Pow2(f.exp)

LabelIndex(m) == Atoi(m.labelValues[1])
LabelName(m) == m.labelValues[2]
SamplesOf(idx) == {p \in DOMAIN sink : LabelIndex(sink[p]) = idx}

MetricOrder == <<"utilisation_percentage", "temperature_celsius", "memory_total_bytes",
                 "memory_used_bytes", "memory_free_bytes", "info">>
SamplesPerDevice == Len(MetricOrder)

\* the samples of idx are one sample of each of the six descriptors
FullBatch(idx) ==
    /\ Cardinality(SamplesOf(idx)) = SamplesPerDevice
    /\ \A d \in DOMAIN MetricOrder :
         \E p \in SamplesOf(idx) : sink[p].desc.name = MetricOrder[d]

WarnsFor(idx) ==
    {k \in DOMAIN log : log[k].level = "WARN" /\ log[k].attrs[1] = <<"gpu_index", idx>>}
ErrorEntries == {k \in DOMAIN log : log[k].level = "ERROR"}
DeviceFaults(idx) == {k \in DOMAIN nvmlCalls : /\ nvmlCalls[k].fn \in DeviceFns
                                               /\ nvmlCalls[k].index = idx
                                               /\ nvmlCalls[k].ret # SUCCESS}

----------------------------------------------------------------------------
(* C1: Update returns an error exactly when the count query failed or the  *)
(* count is 0; with a count of 1 or more it returns nil whatever the       *)
(* per-device reads did, also when every device failed.                    *)
C1_ErrorIffCountLevelFault ==
    Returned => (~err.isNil <=> (CountQueryFailed \/ ReportedCount = 0))

C1_Witness ==
    /\ Returned
    /\ CountQueryOk
    /\ ReportedCount = MaxDevices
    /\ \A idx \in 0..(MaxDevices - 1) : DeviceFaults(idx) # {} /\ ~Healthy(idx)
    /\ FailedRead("DeviceGetHandleByIndex", 0)
    /\ FailedRead("GetMemoryInfo", 1)
    /\ err.isNil

(* C2: when the count query succeeds with 0 devices, Update returns an     *)
(* error and nothing has been sent to the sink.                            *)
C2_ZeroDevicesIsError ==
    (Returned /\ CountQueryOk /\ ReportedCount = 0) => (~err.isNil /\ sink = <<>>)

C2_Witness ==
    /\ Returned
    /\ CountQueryOk
    /\ ReportedCount = 0
    /\ err = ErrorsNew("no NVIDIA GPUs found")

(* C3: when the count query fails, Update returns an error, nothing has    *)
(* been sent to the sink and no device was queried: the count query is     *)
(* the only library call of the call.                                      *)
C3_CountFailureAborts ==
    CountQueryFailed =>
        /\ Returned
        /\ ~err.isNil
        /\ sink = <<>>
        /\ Len(nvmlCalls) = 1
        /\ \A idx \in DeviceIndices, fn \in DeviceFns : ~Asked(fn, idx)

C3_Witness ==
    /\ Returned
    /\ CountQueryFailed
    /\ ReportedCount = MaxDevices
    /\ ~err.isNil

(* C4: with N devices of which device k fails handle retrieval while       *)
(* every read of every other device succeeds, the sink holds 6*(N-1)       *)
(* samples at the return, none labelled k, and each other index (those     *)
(* after k included) has its full batch.                                   *)
C4_HandleFailureSkipsOneDevice ==
    Returned /\ CountQueryOk =>
        \A k \in 0..(ReportedCount - 1) :
            ( /\ FailedRead("DeviceGetHandleByIndex", k)
              /\ \A j \in (0..(ReportedCount - 1)) \ {k} : AllReadsOk(j) )
            => /\ Len(sink) = SamplesPerDevice * (ReportedCount - 1)
               /\ SamplesOf(k) = {}
               /\ \A j \in (0..(ReportedCount - 1)) \ {k} : FullBatch(j)

C4_Witness ==
    /\ Returned
    /\ CountQueryOk
    /\ ReportedCount = MaxDevices
    /\ FailedRead("DeviceGetHandleByIndex", 0)
    /\ \A j \in 1..(MaxDevices - 1) : AllReadsOk(j) /\ FullBatch(j)
    /\ Len(sink) = SamplesPerDevice * (MaxDevices - 1)

(* C5: emission is all or nothing per device: whenever the loop is between *)
(* two devices or Update has returned, every index has its six samples     *)
(* (one per descriptor) if handle, utilization, temperature and memory     *)
(* were all read and no sample otherwise, and the sink holds 6 samples per *)
(* such device and nothing else.                                           *)
C5_AllOrNothingPerDevice ==
    pc \in {"for", "done"} =>
        /\ \A idx \in DeviceIndices :
              IF Healthy(idx) THEN FullBatch(idx) ELSE SamplesOf(idx) = {}
        /\ Len(sink) = SamplesPerDevice * Cardinality(HealthySet)

C5_Witness ==
    /\ Returned
    /\ Succeeded("GetUtilizationRates", 0)
    /\ FailedRead("GetTemperature", 0)
    /\ SamplesOf(0) = {}
    /\ Healthy(1)
    /\ Len(sink) = SamplesPerDevice

(* C6: a device whose name read fails while handle, utilization,           *)
(* temperature and memory succeed has all six samples, each with           *)
(* gpu_name "unknown".                                                     *)
C6_NameFailureUsesPlaceholder ==
    Returned =>
        \A idx \in DeviceIndices :
            (FailedRead("GetName", idx) /\ Healthy(idx)) =>
                /\ FullBatch(idx)
                /\ \A p \in SamplesOf(idx) : LabelName(sink[p]) = "unknown"

C6_Witness ==
    /\ Returned
    /\ FailedRead("GetName", 0)
    /\ Healthy(0)
    /\ Cardinality(SamplesOf(0)) = SamplesPerDevice

(* C7: every Update call that has started eventually returns (the library  *)
(* calls return and the sends are received).                               *)
C7_UpdateReturns == (pc = "GetCount") ~> Returned

C7_Witness ==
    /\ Returned
    /\ CountQueryOk
    /\ ReportedCount = MaxDevices
    /\ i = MaxDevices
    /\ Len(sink) >= SamplesPerDevice
    /\ Len(log) >= 1

(* C8: a fatal fault affects its own call only: whatever the previous call *)
(* returned, the outcome of a call follows from the library's answers of   *)
(* this call, so a call after a failed one with all devices healthy        *)
(* returns nil with the full sample set; the collector keeps nothing but   *)
(* its six descriptors, which never change.                                *)
C8_FatalFaultIsPerCall ==
    /\ g = NewGPUCollector
    /\ Returned =>
        /\ err.isNil <=> (CountQueryOk /\ ReportedCount # 0)
        /\ Len(sink) = SamplesPerDevice * Cardinality(HealthySet)
        /\ ( /\ lastFailed
             /\ CountQueryOk
             /\ ReportedCount >= 1
             /\ \A idx \in 0..(ReportedCount - 1) : AllReadsOk(idx) )
           => /\ err.isNil
              /\ Len(sink) = SamplesPerDevice * ReportedCount
              /\ \A idx \in 0..(ReportedCount - 1) : FullBatch(idx)

C8_Witness ==
    /\ Returned
    /\ lastFailed
    /\ CountQueryOk
    /\ ReportedCount = MaxDevices
    /\ \A idx \in 0..(MaxDevices - 1) : AllReadsOk(idx)
    /\ err.isNil
    /\ Len(sink) = SamplesPerDevice * MaxDevices

(* C9: logging follows the fault taxonomy: every fatal fault (count query *)
(* failed, or zero devices) has written an error-level entry when Update   *)
(* returns its error, every per-device fault has written exactly one       *)
(* warning carrying the device's index, and nothing else is logged (so a   *)
(* call without fault logs nothing).                                       *)
C9_EveryFatalFaultLogsError ==
    /\ \A idx \in DeviceIndices :
          Cardinality(WarnsFor(idx)) = Cardinality(DeviceFaults(idx))
    /\ Returned =>
        /\ (CountQueryFailed \/ (CountQueryOk /\ ReportedCount = 0))
              => ErrorEntries # {}
        /\ ErrorEntries # {} => ~err.isNil
        /\ DOMAIN log = ErrorEntries \cup UNION {WarnsFor(idx) : idx \in DeviceIndices}

(* What the logger does receive: a failed count query writes one         *)
(* error-level entry before Update returns its error; zero devices returns *)
(* its error without any log entry; every per-device fault (handle, name,  *)
(* utilization, temperature, memory) writes exactly one warning carrying   *)
(* the device's index; nothing else is logged.                             *)
LoggingAsCoded ==
    /\ \A idx \in DeviceIndices :
          Cardinality(WarnsFor(idx)) = Cardinality(DeviceFaults(idx))
    /\ DOMAIN log = ErrorEntries \cup UNION {WarnsFor(idx) : idx \in DeviceIndices}
    /\ Cardinality(ErrorEntries) = IF CountAsked /\ CountQueryFailed THEN 1 ELSE 0
    /\ CountAsked /\ CountQueryFailed =>
          /\ Returned
          /\ log = <<LogError("failed to get GPU count", nvmlCalls[1].ret)>>
    /\ (Returned /\ CountQueryOk /\ ReportedCount = 0) => (log = <<>> /\ ~err.isNil)

\* position p of the sink: its batch and its slot in the batch
BatchOf(p) == ((p - 1) \div SamplesPerDevice) + 1
SlotOf(p) == ((p - 1) % SamplesPerDevice) + 1
\* the device the b-th batch belongs to: the b-th smallest readable index
NthHealthy(b) ==
    CHOOSE idx \in HealthySet : Cardinality({j \in HealthySet : j < idx}) = b - 1
ExpectedName(idx) ==
    IF Succeeded("GetName", idx) THEN Reading("GetName", idx) ELSE "unknown"
ExpectedValue(slot, idx) ==
    CASE slot = 1 -> Reading("GetUtilizationRates", idx).Gpu
      [] slot = 2 -> Reading("GetTemperature", idx)
      [] slot = 3 -> Reading("GetMemoryInfo", idx).Total
      [] slot = 4 -> Reading("GetMemoryInfo", idx).Used
      [] slot = 5 -> Reading("GetMemoryInfo", idx).Free
      [] slot = 6 -> 1

(* C10: the samples of a device are one contiguous batch in the order      *)
(* utilization, temperature, memory total, used, free, info; the six carry *)
(* the same labels, gpu_index the decimal numeral of the device's index    *)
(* and gpu_name the name read or "unknown"; the first five values are the  *)
(* readings the library gave for that device in this call and the info     *)
(* value is 1; the batches are in strictly ascending index order.          *)
C10_BatchesInOrder ==
    /\ \A p \in DOMAIN sink :
          /\ BatchOf(p) <= Cardinality(HealthySet)
          /\ LET idx == NthHealthy(BatchOf(p))
                 m == sink[p]
             IN  /\ m.desc.name = MetricOrder[SlotOf(p)]
                 /\ m.desc.subsystem = "gpu"
                 /\ m.desc.variableLabels = <<"gpu_index", "gpu_name">>
                 /\ m.valueType = "GaugeValue"
                 /\ Len(m.labelValues) = 2
                 /\ LabelIndex(m) = idx
                 /\ LabelName(m) = ExpectedName(idx)
                 /\ FloatValue(m.value) = ExpectedValue(SlotOf(p), idx)
    /\ \A p, q \in DOMAIN sink :
          BatchOf(p) < BatchOf(q) => LabelIndex(sink[p]) < LabelIndex(sink[q])
    /\ Returned => Len(sink) = SamplesPerDevice * Cardinality(HealthySet)

C10_Witness ==
    /\ Returned
    /\ Len(sink) = SamplesPerDevice * MaxDevices
    /\ sink[1].labelValues = <<<<"0">>, "A">>
    /\ sink[SamplesPerDevice + 1].labelValues = <<<<"1">>, "B">>
    /\ FloatValue(sink[1].value) = 50
    /\ FloatValue(sink[SamplesPerDevice + 4].value) = 0
    /\ sink[SamplesPerDevice].value = Float64(1)

====
